---- MODULE Spec2Model ----
(***************************************************************************)
(* A model of src/model/loader.rs: load_model and process_node, which turn *)
(* a glTF document into a Model (meshes and material slots).               *)
(*                                                                         *)
(* The document on disk and the path given to load_model are the inputs;   *)
(* they are fixed by Init and never change.  load_model is one linear     *)
(* pass: the import, then one step per primitive of the processed node,    *)
(* then the return of the Model.  A panic (expect/unwrap/index out of      *)
(* bounds) ends the call without a Model.                                  *)
(***************************************************************************)
EXTENDS Integers, Sequences, FiniteSets, TLC

VARIABLES
    file_path,   \* the &str given to load_model, as a parsed path
    asset,       \* what gltf::import finds at file_path
    pc,          \* "start", "process", "done" or "panicked"
    k,           \* 1-based position of process_node's primitive loop
    meshes,      \* the Vec<Mesh> accumulator
    materials,   \* the Vec<Material> slot array
    loaded       \* the paths passed to load_texture so far, in call order

vars == <<file_path, asset, pc, k, meshes, materials, loaded>>

(***************************************************************************)
(* Bounds of the input space.                                              *)
(***************************************************************************)
MaxVerts == 2       \* longest attribute stream
MaxIdx == 3         \* longest index stream
MaxPrims == 2       \* most primitives in one mesh
MaxMaterials == 2   \* most materials a document declares
MaxNodes == 2       \* most top-level nodes

(***************************************************************************)
(* Option<T>: None, or Some(x).                                            *)
(***************************************************************************)
None == <<>>
Some(x) == <<x>>
IsSome(o) == Len(o) > 0
Unwrap(o) == o[1]

(***************************************************************************)
(* glam vectors and the Default impls.                                     *)
(***************************************************************************)
Vec3Zero == <<0, 0, 0>>
\* An f32 is kept as a fraction <<numerator, denominator>> in lowest terms.
F32(n) == <<n, 1>>
Vec2Zero == <<F32(0), F32(0)>>
Vec4One == <<1, 1, 1, 1>>

DefaultVertex == [position |-> Vec3Zero, normal |-> Vec3Zero, tex_coord |-> Vec2Zero]
DefaultMaterial == [base_color |-> Vec4One, base_color_texture |-> None]

\* The material the gltf crate hands out for a primitive that names none.
GltfDefaultMaterial == [base_color_factor |-> Vec4One, base_color_texture |-> None]

(***************************************************************************)
(* std::path::Path, as a root flag and the components.                     *)
(***************************************************************************)
MkPath(root, comps) == [root |-> root, comps |-> comps]
CurDir == MkPath(FALSE, <<".">>)

\* Path::parent: None for "" and for "/".
Parent(p) ==
    IF Len(p.comps) = 0
    THEN None
    ELSE Some(MkPath(p.root, SubSeq(p.comps, 1, Len(p.comps) - 1)))

\* Path::join: an absolute argument replaces the base.
Join(base, rel) ==
    IF rel.root THEN rel ELSE MkPath(base.root, base.comps \o rel.comps)

\* A join onto the asset path itself rather than onto its parent.
texture_path_NoParent(fp, uri) == Join(fp, uri)

\* model_path.parent().unwrap_or_else(|| Path::new("./")).join(uri)
texture_path(fp, uri) ==
    Join(IF IsSome(Parent(fp)) THEN Unwrap(Parent(fp)) ELSE CurDir, uri)

\* The texture collaborator: an opaque resource made from the path.
load_texture(path) == [texture_of |-> path]

(***************************************************************************)
(* Accessor conversions of the gltf reader.                                *)
(***************************************************************************)
RECURSIVE Gcd(_, _)
Gcd(a, b) == IF b = 0 THEN a ELSE Gcd(b, a % b)

Frac(n, d) == IF n = 0 THEN <<0, 1>> ELSE <<n \div Gcd(n, d), d \div Gcd(n, d)>>

\* ReadTexCoords::into_f32: floats as they are, normalised integers divided
\* by the largest value of their type.
CastF32(ty, raw) ==
    CASE ty = "F32" -> F32(raw)
      [] ty = "U8" -> Frac(raw, 255)
      [] ty = "U16" -> Frac(raw, 65535)

into_f32(stream) ==
    [i \in 1..Len(stream.data) |->
        <<CastF32(stream.ty, stream.data[i][1]), CastF32(stream.ty, stream.data[i][2])>>]

\* ReadIndices::into_u32: a widening cast of u8, u16 or u32.
into_u32(stream) == [i \in 1..Len(stream.data) |-> stream.data[i]]

(***************************************************************************)
(* process_node, lines 86-119: the vertices and indices of one primitive.  *)
(***************************************************************************)
InitVertices(positions) ==
    [i \in 1..Len(positions) |-> [DefaultVertex EXCEPT !.position = positions[i]]]

\* A loop that stops one entry short of the normal stream.
WriteNormals_DropLast(vertices, normals) ==
    [i \in 1..Len(vertices) |->
        IF i < Len(normals)
        THEN [vertices[i] EXCEPT !.normal = normals[i]]
        ELSE vertices[i]]

\* vertices[i].normal = ... for every entry of the stream; the caller has
\* ruled out a stream longer than the vertices (an index out of bounds).
WriteNormals(vertices, normals) ==
    [i \in 1..Len(vertices) |->
        IF i <= Len(normals)
        THEN [vertices[i] EXCEPT !.normal = normals[i]]
        ELSE vertices[i]]

WriteTexCoords(vertices, tex_coords) ==
    [i \in 1..Len(vertices) |->
        IF i <= Len(tex_coords)
        THEN [vertices[i] EXCEPT !.tex_coord = tex_coords[i]]
        ELSE vertices[i]]

AssembleVertices(p) ==
    LET v0 == InitVertices(Unwrap(p.positions))
        v1 == IF IsSome(p.normals) THEN WriteNormals(v0, Unwrap(p.normals)) ELSE v0
    IN  IF IsSome(p.tex_coords)
        THEN WriteTexCoords(v1, into_f32(Unwrap(p.tex_coords)))
        ELSE v1

ReadIndices(p) == into_u32(Unwrap(p.indices))

\* The panics of lines 86-119: the two expects and the two indexed writes.
GeometryPanics(p) ==
    \/ ~IsSome(p.positions)
    \/ /\ IsSome(p.normals)
       /\ Len(Unwrap(p.normals)) > Len(Unwrap(p.positions))
    \/ /\ IsSome(p.tex_coords)
       /\ Len(Unwrap(p.tex_coords).data) > Len(Unwrap(p.positions))
    \/ ~IsSome(p.indices)

(***************************************************************************)
(* process_node, lines 121-135: the material slot of one primitive.        *)
(***************************************************************************)
prim_material(doc, p) ==
    IF IsSome(p.material)
    THEN doc.materials[Unwrap(p.material) + 1]
    ELSE GltfDefaultMaterial

\* primitive.material().index().unwrap_or(0), 0-based
material_index(p) == IF IsSome(p.material) THEN Unwrap(p.material) ELSE 0

\* Some(uri) when the material has a base-colour texture whose image source
\* is a URI.
TextureUri(m) ==
    IF IsSome(m.base_color_texture) /\ Unwrap(m.base_color_texture).kind = "Uri"
    THEN Some(Unwrap(m.base_color_texture).uri)
    ELSE None

\* A resolver that fills a slot only while it still has the default colour.
WriteBaseColor_KeepFirst(mats, idx, m) ==
    IF mats[idx + 1].base_color = Vec4One
    THEN [mats EXCEPT ![idx + 1].base_color = m.base_color_factor]
    ELSE mats

WriteBaseColor(mats, idx, m) ==
    [mats EXCEPT ![idx + 1].base_color = m.base_color_factor]

WriteTexture(mats, idx, m, fp) ==
    IF IsSome(TextureUri(m))
    THEN [mats EXCEPT ![idx + 1].base_color_texture =
              Some(load_texture(texture_path(fp, Unwrap(TextureUri(m)))))]
    ELSE mats

\* A loader that skips a path it has already loaded.
TextureCalls_Cached(m, fp) ==
    IF /\ IsSome(TextureUri(m))
       /\ \A i \in 1..Len(loaded) : loaded[i] # texture_path(fp, Unwrap(TextureUri(m)))
    THEN <<texture_path(fp, Unwrap(TextureUri(m)))>>
    ELSE <<>>

\* The load_texture calls one primitive makes.
TextureCalls(m, fp) ==
    IF IsSome(TextureUri(m))
    THEN <<texture_path(fp, Unwrap(TextureUri(m)))>>
    ELSE <<>>

\* A Mesh that stores the 1-based position of its slot.
MakeMesh_OneBased(p) ==
    [vertices |-> AssembleVertices(p),
     indices |-> ReadIndices(p),
     material_idx |-> material_index(p) + 1]

MakeMesh(p) ==
    [vertices |-> AssembleVertices(p),
     indices |-> ReadIndices(p),
     material_idx |-> material_index(p)]

(***************************************************************************)
(* load_model, lines 152-169.                                              *)
(***************************************************************************)
\* gltf::import: the file is read and parsed, and every material reference
\* of the document is validated against the declared materials.  A path
\* without a parent ("" or "/") names no file that can be read.
Importable(fp, doc) ==
    /\ doc.readable
    /\ IsSome(Parent(fp))
    /\ \A n \in 1..Len(doc.nodes) :
          IsSome(doc.nodes[n].mesh) =>
             \A j \in 1..Len(Unwrap(doc.nodes[n].mesh)) :
                LET p == Unwrap(doc.nodes[n].mesh)[j]
                IN  IsSome(p.material) => Unwrap(p.material) < Len(doc.materials)

\* The slot array without the default slot of an empty table.
MaterialSlots_NoDefault(n) == [i \in 1..n |-> DefaultMaterial]

\* vec![Material::default(); n], and one default slot when that is empty.
MaterialSlots(n) ==
    IF n = 0 THEN <<DefaultMaterial>> ELSE [i \in 1..n |-> DefaultMaterial]

\* A traversal of every top-level node.
ProcessedNodes_All(doc) == doc.nodes

\* The nodes handed to process_node: the first one, when there is one.
ProcessedNodes(doc) ==
    IF Len(doc.nodes) > 0 THEN <<doc.nodes[1]>> ELSE <<>>

\* if let Some(mesh) = node.mesh() { for primitive in mesh.primitives() ...
NodePrimitives(node) == IF IsSome(node.mesh) THEN Unwrap(node.mesh) ELSE <<>>

RECURSIVE FlattenPrimitives(_)
FlattenPrimitives(nodes) ==
    IF Len(nodes) = 0
    THEN <<>>
    ELSE NodePrimitives(Head(nodes)) \o FlattenPrimitives(Tail(nodes))

\* The primitives the loop of process_node runs over, in order.
Primitives == FlattenPrimitives(ProcessedNodes(asset))

\* A loop without the topology test.
IsTriangles_Any(p) == TRUE

\* primitive.mode() == gltf::mesh::Mode::Triangles
IsTriangles(p) == p.mode = "Triangles"

(***************************************************************************)
(* The documents and paths the model is run on.                            *)
(***************************************************************************)
Modes == {"Triangles", "Lines"}

Red == <<1, 0, 0, 1>>
Blue == <<0, 0, 1, 1>>

AssetPath == MkPath(TRUE, <<"assets", "scene.gltf">>)
FooUri == MkPath(FALSE, <<"foo.png">>)
BarUri == MkPath(FALSE, <<"tex", "bar.png">>)
AbsUri == MkPath(TRUE, <<"shared", "baz.png">>)

PosStream(n) == [i \in 1..n |-> <<i, i + 1, i + 2>>]
NormStream(n) == [i \in 1..n |-> <<0, i, 1>>]
TexData(n) == [i \in 1..n |-> <<i, i + 1>>]
IdxData(n) == [i \in 1..n |-> (i - 1) % 3]

TexTypes == {"F32", "U8", "U16"}
IdxType(n) == IF n % 2 = 0 THEN "U16" ELSE "U32"

OptPositions == {None} \cup {Some(PosStream(n)) : n \in 0..MaxVerts}
OptNormals == {None} \cup {Some(NormStream(n)) : n \in 0..MaxVerts}
OptTexCoords ==
    {None} \cup {Some([ty |-> ty, data |-> TexData(n)]) : ty \in TexTypes, n \in 0..MaxVerts}
OptIndices ==
    {None} \cup {Some([ty |-> IdxType(n), data |-> IdxData(n)]) : n \in 0..MaxIdx}

Triangle == Some([ty |-> "U16", data |-> IdxData(3)])

Prim(mode, pos, nrm, tex, idx, mat) ==
    [mode |-> mode, positions |-> pos, normals |-> nrm, tex_coords |-> tex,
     indices |-> idx, material |-> mat]

\* A well-formed one-vertex triangle-list primitive naming material mat.
PlainPrim(mat) == Prim("Triangles", Some(PosStream(1)), None, None, Triangle, mat)

Doc(mats, nodes) == [readable |-> TRUE, materials |-> mats, nodes |-> nodes]
OneNode(prims) == <<[mesh |-> Some(prims)]>>

TexSources ==
    {None, Some([kind |-> "View", uri |-> MkPath(FALSE, <<>>)]),
     Some([kind |-> "Uri", uri |-> FooUri]), Some([kind |-> "Uri", uri |-> BarUri])}
DocMaterials == [base_color_factor : {Red, Blue}, base_color_texture : TexSources]

UriMaterial(c, uri) ==
    [base_color_factor |-> c,
     base_color_texture |-> Some([kind |-> "Uri", uri |-> uri])]

Unreadable == [readable |-> FALSE, materials |-> <<>>, nodes |-> <<>>]

AssetPaths ==
    {AssetPath, MkPath(FALSE, <<"scene.gltf">>), MkPath(FALSE, <<"models", "scene.gltf">>),
     MkPath(TRUE, <<>>), MkPath(FALSE, <<>>)}

\* One primitive, every combination of attribute streams.
VertexAssets ==
    \E pos \in OptPositions, nrm \in OptNormals, tex \in OptTexCoords :
        /\ file_path = AssetPath
        /\ asset = Doc(<<>>, OneNode(<<Prim("Triangles", pos, nrm, tex, Triangle, None)>>))

\* Several primitives, every topology and index stream.
IndexPrims ==
    {Prim(mode, pos, None, None, idx, None) :
        mode \in Modes, pos \in {None, Some(PosStream(1))}, idx \in OptIndices}

IndexAssets ==
    \E n \in 0..MaxPrims : \E ps \in [1..n -> IndexPrims] :
        /\ file_path = AssetPath
        /\ asset = Doc(<<>>, OneNode(ps))

\* Every material table, and triangle lists naming any or no material.
MaterialAssets ==
    \E n \in 0..MaxMaterials : \E mats \in [1..n -> DocMaterials] :
        \E np \in 0..MaxPrims :
            \E ps \in [1..np -> {PlainPrim(m) : m \in {None} \cup {Some(i) : i \in 0..(n - 1)}}] :
                /\ file_path = AssetPath
                /\ asset = Doc(mats, OneNode(ps))

\* Primitives of either topology over one textured material.
ModePrims ==
    {Prim(mode, Some(PosStream(1)), None, None, Triangle, m) :
        mode \in Modes, m \in {None, Some(0)}}

ModeAssets ==
    \E n \in 0..MaxPrims : \E ps \in [1..n -> ModePrims] :
        /\ file_path = AssetPath
        /\ asset = Doc(<<UriMaterial(Red, FooUri)>>, OneNode(ps))

\* Any number of top-level nodes, with and without a mesh.
NodeChoices ==
    {[mesh |-> None], [mesh |-> Some(<<>>)],
     [mesh |-> Some(<<PlainPrim(Some(0))>>)],
     [mesh |-> Some(<<PlainPrim(Some(1))>>)],
     [mesh |-> Some(<<Prim("Triangles", None, None, None, Triangle, Some(1))>>)]}

NodeAssets ==
    \E n \in 0..MaxNodes : \E ns \in [1..n -> NodeChoices] :
        /\ file_path = AssetPath
        /\ asset = Doc(<<UriMaterial(Red, FooUri), UriMaterial(Blue, BarUri)>>, ns)

\* A material reference past the declared materials.
InvalidAssets ==
    \E n \in 0..MaxMaterials :
        /\ file_path = AssetPath
        /\ asset = Doc([i \in 1..n |-> UriMaterial(Red, FooUri)],
                       OneNode(<<PlainPrim(Some(n))>>))

\* Every path, over a file that cannot be parsed and over one textured
\* primitive.
PathAssets ==
    \E fp \in AssetPaths :
        /\ file_path = fp
        /\ \/ asset = Unreadable
           \/ \E u \in {FooUri, BarUri, AbsUri} :
                 asset = Doc(<<UriMaterial(Red, u)>>, OneNode(<<PlainPrim(Some(0))>>))

(***************************************************************************)
(* The state machine.                                                      *)
(***************************************************************************)
Init ==
    /\ \/ VertexAssets
       \/ IndexAssets
       \/ MaterialAssets
       \/ ModeAssets
       \/ NodeAssets
       \/ InvalidAssets
       \/ PathAssets
    /\ pc = "start"
    /\ k = 1
    /\ meshes = <<>>
    /\ materials = <<>>
    /\ loaded = <<>>

\* load_model, lines 152-159: the import and the material slots.
Import ==
    /\ pc = "start"
    /\ IF Importable(file_path, asset)
       THEN /\ pc' = "process"
            /\ materials' = MaterialSlots(Len(asset.materials))
       ELSE /\ pc' = "panicked"
            /\ UNCHANGED materials
    /\ UNCHANGED <<file_path, asset, k, meshes, loaded>>

\* One pass of the loop of process_node over a primitive that is not a
\* triangle list: line 81 is false and nothing else runs.
SkipPrimitive ==
    /\ pc = "process"
    /\ k <= Len(Primitives)
    /\ ~IsTriangles(Primitives[k])
    /\ k' = k + 1
    /\ UNCHANGED <<file_path, asset, pc, meshes, materials, loaded>>

\* A loop that passes over a malformed primitive and goes on.
Abort_Continue ==
    /\ k' = k + 1
    /\ UNCHANGED <<pc, meshes, materials, loaded>>

\* A failed expect or an index out of bounds: the panic unwinds load_model
\* and no Model is returned.
Abort ==
    /\ pc' = "panicked"
    /\ UNCHANGED <<k, meshes, materials, loaded>>

\* One pass of the loop over a triangle list, lines 82-141.  load_texture is
\* a blocking call that either returns a texture or ends the whole load.
ConvertPrimitive ==
    /\ pc = "process"
    /\ k <= Len(Primitives)
    /\ IsTriangles(Primitives[k])
    /\ LET p == Primitives[k]
           m == prim_material(asset, p)
           idx == material_index(p)
       IN  IF GeometryPanics(p) \/ idx >= Len(materials)
           THEN Abort
           ELSE \E texture_ok \in (IF IsSome(TextureUri(m)) THEN BOOLEAN ELSE {TRUE}) :
                    /\ loaded' = loaded \o TextureCalls(m, file_path)
                    /\ IF texture_ok
                       THEN /\ materials' =
                                  WriteTexture(WriteBaseColor(materials, idx, m), idx, m, file_path)
                            /\ meshes' = Append(meshes, MakeMesh(p))
                            /\ k' = k + 1
                            /\ pc' = pc
                       ELSE \* load_texture itself failed
                            /\ materials' = WriteBaseColor(materials, idx, m)
                            /\ pc' = "panicked"
                            /\ UNCHANGED <<k, meshes>>
    /\ UNCHANGED <<file_path, asset>>

\* load_model, lines 171-174: the Model is returned.
Return ==
    /\ pc = "process"
    /\ k > Len(Primitives)
    /\ pc' = "done"
    /\ UNCHANGED <<file_path, asset, k, meshes, materials, loaded>>

Next == Import \/ SkipPrimitive \/ ConvertPrimitive \/ Return

Spec == Init /\ [][Next]_vars

(***************************************************************************)
(* What the claims speak of, read off the document itself.                 *)
(***************************************************************************)
Returned == pc = "done"

\* The primitives of the first top-level node's mesh.
FirstNodePrims ==
    IF Len(asset.nodes) = 0 \/ Len(asset.nodes[1].mesh) = 0
    THEN <<>>
    ELSE asset.nodes[1].mesh[1]

IsTriangleList(p) == p.mode = "Triangles"
TriangleLists == SelectSeq(FirstNodePrims, IsTriangleList)

\* The slot a primitive resolves to, and the material it is drawn with.
SlotOf(p) == IF p.material = <<>> THEN 0 ELSE p.material[1]
FactorOf(p) ==
    IF p.material = <<>> THEN <<1, 1, 1, 1>>
    ELSE asset.materials[p.material[1] + 1].base_color_factor
HasUriTexture(p) ==
    /\ p.material # <<>>
    /\ asset.materials[p.material[1] + 1].base_color_texture # <<>>
    /\ asset.materials[p.material[1] + 1].base_color_texture[1].kind = "Uri"
UriOf(p) == asset.materials[p.material[1] + 1].base_color_texture[1].uri

\* The asset's parent directory joined with a URI.
ResolvedPath(uri) ==
    IF uri.root THEN uri
    ELSE IF Len(file_path.comps) = 0
         THEN [root |-> FALSE, comps |-> <<".">> \o uri.comps]
         ELSE [root |-> file_path.root,
               comps |-> SubSeq(file_path.comps, 1, Len(file_path.comps) - 1) \o uri.comps]

\* The triangle lists that resolve to slot i (0-based), by position.
WritersOf(i) == {j \in 1..Len(TriangleLists) : SlotOf(TriangleLists[j]) = i}
LastOf(W) == CHOOSE j \in W : \A j2 \in W : j2 <= j

(***************************************************************************)
(* C1: in every returned Model, every Mesh.material_idx is a valid index   *)
(* into Model.materials.                                                   *)
(***************************************************************************)
C1_MaterialIdxValid ==
    Returned =>
        \A j \in 1..Len(meshes) :
            /\ meshes[j].material_idx >= 0
            /\ meshes[j].material_idx < Len(materials)

\* A Model whose mesh names the last of several material slots.
C1_Witness ==
    /\ Returned
    /\ Len(materials) > 1
    /\ \E j \in 1..Len(meshes) : meshes[j].material_idx = Len(materials) - 1

(***************************************************************************)
(* C2, as stated: with N > 0 declared materials the Model has N slots and  *)
(* every slot holds the base-colour factor of the last primitive processed *)
(* for it.                                                                 *)
(***************************************************************************)
C2_EverySlotHoldsAFactor ==
    (Returned /\ Len(asset.materials) > 0) =>
        /\ Len(materials) = Len(asset.materials)
        /\ \A i \in 1..Len(materials) :
              /\ WritersOf(i - 1) # {}
              /\ materials[i].base_color = FactorOf(TriangleLists[LastOf(WritersOf(i - 1))])

(***************************************************************************)
(* C2, amended: with N > 0 declared materials the Model has N slots; a     *)
(* slot that some processed triangle list resolves to holds the factor of  *)
(* the last such primitive, and every other slot keeps the default colour. *)
(***************************************************************************)
C2_LastWriterWins ==
    (Returned /\ Len(asset.materials) > 0) =>
        /\ Len(materials) = Len(asset.materials)
        /\ \A i \in 1..Len(materials) :
              IF WritersOf(i - 1) # {}
              THEN materials[i].base_color = FactorOf(TriangleLists[LastOf(WritersOf(i - 1))])
              ELSE materials[i].base_color = <<1, 1, 1, 1>>

\* Two primitives with different factors were processed for slot 0, and
\* the second one's factor is what the Model holds.
C2_Witness ==
    /\ Returned
    /\ Len(asset.materials) > 0
    /\ Cardinality(WritersOf(0)) > 1
    /\ \E j \in WritersOf(0) :
          FactorOf(TriangleLists[j]) # FactorOf(TriangleLists[LastOf(WritersOf(0))])
    /\ materials[1].base_color = FactorOf(TriangleLists[LastOf(WritersOf(0))])

(***************************************************************************)
(* C3: a document that declares no material yields exactly one material    *)
(* slot, and every Mesh.material_idx is 0.                                 *)
(***************************************************************************)
C3_ZeroMaterials ==
    (Returned /\ Len(asset.materials) = 0) =>
        /\ Len(materials) = 1
        /\ \A j \in 1..Len(meshes) : meshes[j].material_idx = 0

C3_Witness ==
    /\ Returned
    /\ Len(asset.materials) = 0
    /\ Len(meshes) > 1

(***************************************************************************)
(* C4: a returned Mesh has one vertex per source position, with the        *)
(* position copied; its normal is the i-th entry of the normal stream      *)
(* where that stream has one and the zero vector elsewhere; its tex_coord  *)
(* likewise from texture-coordinate set 0.                                 *)
(***************************************************************************)
\* The largest value of a normalised integer component type (1 for floats).
Scale(ty) == CASE ty = "F32" -> 1 [] ty = "U8" -> 255 [] ty = "U16" -> 65535

\* f, a fraction <<n, d>>, is the value a raw component of type ty stands for.
IsValueOf(f, ty, raw) == f[2] > 0 /\ f[1] * Scale(ty) = raw * f[2]

VertexMatches(v, p, i) ==
    /\ v.position = p.positions[1][i]
    /\ v.normal = IF p.normals # <<>> /\ i <= Len(p.normals[1])
                  THEN p.normals[1][i]
                  ELSE <<0, 0, 0>>
    /\ IF p.tex_coords # <<>> /\ i <= Len(p.tex_coords[1].data)
       THEN /\ IsValueOf(v.tex_coord[1], p.tex_coords[1].ty, p.tex_coords[1].data[i][1])
            /\ IsValueOf(v.tex_coord[2], p.tex_coords[1].ty, p.tex_coords[1].data[i][2])
       ELSE v.tex_coord = <<<<0, 1>>, <<0, 1>>>>

C4_VerticesAssembled ==
    Returned =>
        /\ Len(meshes) <= Len(TriangleLists)
        /\ \A j \in 1..Len(meshes) :
              LET p == TriangleLists[j]
              IN  /\ p.positions # <<>>
                  /\ Len(meshes[j].vertices) = Len(p.positions[1])
                  /\ \A i \in 1..Len(meshes[j].vertices) :
                        VertexMatches(meshes[j].vertices[i], p, i)

\* A Mesh of two vertices whose normal and texture-coordinate streams both
\* stop after the first.
C4_Witness ==
    /\ Returned
    /\ \E j \in 1..Len(meshes) :
          /\ Len(meshes[j].vertices) = 2
          /\ meshes[j].vertices[1].normal # <<0, 0, 0>>
          /\ meshes[j].vertices[2].normal = <<0, 0, 0>>
          /\ meshes[j].vertices[1].tex_coord # <<<<0, 1>>, <<0, 1>>>>
          /\ meshes[j].vertices[2].tex_coord = <<<<0, 1>>, <<0, 1>>>>

(***************************************************************************)
(* C5: in a returned Model every Mesh.indices has a length that is a       *)
(* multiple of 3 and is the source primitive's index stream, in order.     *)
(***************************************************************************)
C5_IndicesTriples ==
    Returned =>
        /\ Len(meshes) <= Len(TriangleLists)
        /\ \A j \in 1..Len(meshes) :
              /\ Len(meshes[j].indices) % 3 = 0
              /\ TriangleLists[j].indices # <<>>
              /\ meshes[j].indices = TriangleLists[j].indices[1].data

(***************************************************************************)
(* C6: no Model is returned when the document cannot be imported or when   *)
(* a triangle list of the processed node lacks its positions or indices,   *)
(* whatever was converted before it.                                       *)
(***************************************************************************)
Malformed(p) == p.positions = <<>> \/ p.indices = <<>>

C6_FailureAborts ==
    (\/ ~asset.readable
     \/ \E j \in 1..Len(TriangleLists) : Malformed(TriangleLists[j]))
    => ~Returned

\* The call has ended in a panic at a primitive without indices, after an
\* earlier primitive had been converted.
C6_Witness ==
    /\ pc = "panicked"
    /\ Len(meshes) > 0
    /\ k <= Len(FirstNodePrims)
    /\ IsTriangleList(FirstNodePrims[k])
    /\ FirstNodePrims[k].positions # <<>>
    /\ FirstNodePrims[k].indices = <<>>

(***************************************************************************)
(* C7: only the first top-level node is processed.  Later nodes add no     *)
(* Mesh, change no material slot and load no texture; a first node without *)
(* a mesh leaves the Model without meshes and with default materials.      *)
(***************************************************************************)
UriLists == SelectSeq(TriangleLists, HasUriTexture)

C8_SkipStep ==
    (/\ pc = "process"
     /\ k <= Len(FirstNodePrims)
     /\ ~IsTriangleList(FirstNodePrims[k]))
    => /\ pc' = "process"
       /\ k' = k + 1
       /\ meshes' = meshes
       /\ materials' = materials
       /\ loaded' = loaded

C8_OneMeshPerTriangleList ==
    Returned =>
        /\ Len(meshes) = Len(TriangleLists)
        /\ \A j \in 1..Len(meshes) :
              /\ meshes[j].material_idx = SlotOf(TriangleLists[j])
              /\ TriangleLists[j].indices # <<>>
              /\ meshes[j].indices = TriangleLists[j].indices[1].data

C8_NonTrianglesSkipped == [][C8_SkipStep]_vars /\ []C8_OneMeshPerTriangleList

\* A Model with a Mesh from a triangle list that came after a primitive of
\* another topology naming a declared material.
C8_Witness ==
    /\ Returned
    /\ Len(meshes) > 0
    /\ Len(FirstNodePrims) > 1
    /\ ~IsTriangleList(FirstNodePrims[1])
    /\ FirstNodePrims[1].material # <<>>
    /\ IsTriangleList(FirstNodePrims[2])

(***************************************************************************)
(* C9, as stated: each resolved texture path is passed to load_texture     *)
(* exactly once during a load.                                             *)
(***************************************************************************)
C9_EachPathOnce ==
    Returned => \A i, j \in 1..Len(loaded) : loaded[i] = loaded[j] => i = j

(***************************************************************************)
(* C9, amended: load_texture is called once for every processed triangle   *)
(* list whose material has a URI base-colour texture, in primitive order,  *)
(* so a path is passed once per such primitive that resolves to it.        *)
(***************************************************************************)
C9_OncePerPrimitive ==
    Returned =>
        /\ Len(loaded) = Len(UriLists)
        /\ \A j \in 1..Len(loaded) : loaded[j] = ResolvedPath(UriOf(UriLists[j]))

\* Two primitives of one textured material were processed.
C9_Witness ==
    /\ Returned
    /\ Len(UriLists) > 1
    /\ UriLists[1].material = UriLists[2].material
    /\ Len(loaded) > 1

(***************************************************************************)
(* C10: converting a triangle list whose material has a URI base-colour    *)
(* texture passes the asset's parent directory joined with the URI to      *)
(* load_texture and stores the texture in the primitive's slot; otherwise  *)
(* load_texture is not called and the slot's texture stays as it was.      *)
(***************************************************************************)
C10_ConvertStep ==
    (/\ pc = "process"
     /\ pc' = "process"
     /\ k' = k + 1
     /\ k <= Len(FirstNodePrims)
     /\ IsTriangleList(FirstNodePrims[k]))
    => LET p == FirstNodePrims[k]
           s == SlotOf(p) + 1
       IN  IF HasUriTexture(p)
           THEN /\ loaded' = Append(loaded, ResolvedPath(UriOf(p)))
                /\ materials'[s].base_color_texture =
                      <<[texture_of |-> ResolvedPath(UriOf(p))]>>
                /\ (file_path = [root |-> TRUE, comps |-> <<"assets", "scene.gltf">>]
                    /\ UriOf(p) = [root |-> FALSE, comps |-> <<"foo.png">>])
                   => loaded'[Len(loaded')] = [root |-> TRUE, comps |-> <<"assets", "foo.png">>]
           ELSE /\ loaded' = loaded
                /\ materials'[s].base_color_texture = materials[s].base_color_texture

C10_TexturePath == [][C10_ConvertStep]_vars

\* "/assets/foo.png" has been loaded for "/assets/scene.gltf" and stored.
C10_Witness ==
    /\ file_path = [root |-> TRUE, comps |-> <<"assets", "scene.gltf">>]
    /\ Len(loaded) > 0
    /\ loaded[Len(loaded)] = [root |-> TRUE, comps |-> <<"assets", "foo.png">>]
    /\ \E i \in 1..Len(materials) :
          materials[i].base_color_texture =
              <<[texture_of |-> [root |-> TRUE, comps |-> <<"assets", "foo.png">>]]>>

====
